---------------------------- MODULE Spec2Model ----------------------------
(***************************************************************************)
(* A model of src/cli.py: the phase table and titles (Phase,               *)
(* CurrentPhase), the deadline computation (get_deadline), the validator   *)
(* time_is_valid, the pickle store with its commands, and the adju         *)
(* command (_adju) with the replay command test_adju_output.               *)
(*                                                                         *)
(* Python values are modelled as follows.                                  *)
(*   str            a TLA+ string; characters are read with SubSeq         *)
(*   Optional[T]    a set with at most one element: {} is None             *)
(*   Phase          [season, year, phase_type]                             *)
(*   CurrentPhase   [season, year, phase_type, nxt]                        *)
(*   datetime       [year, month, day, hour, minute, second, microsecond]  *)
(*                  (the wall clock of its zone, as CPython keeps it)      *)
(*   timedelta      [days, seconds, microseconds], normalised              *)
(*   a call result  [err |-> "none", val |-> v] or [err |-> kind]          *)
(*                                                                         *)
(* _phase_map is modelled as the class-level table that create_phase       *)
(* reads.  As written, @dataclass refuses the dict default of the          *)
(* annotated field _phase_map when the class is created (ValueError:       *)
(* mutable default), so cli.py does not load; the model describes the      *)
(* functions as they are written, from a module taken as loaded.           *)
(***************************************************************************)
EXTENDS Integers, Sequences, FiniteSets, TLC

VARIABLES
    data,      \* the pickled Data: [games, nicknames]
    clock,     \* the current instant (UTC), read by datetime.now
    pc,        \* position of the running command
    args,      \* the arguments of the running _adju call
    phase,     \* Optional[CurrentPhase]: local `phase` of _adju
    game,      \* Optional[Game]: local `game` of _adju
    days,      \* Optional[int]: local `days_until` of _adju after line 362
    deadline,  \* Optional[datetime]: local `deadline` of _adju
    now2,      \* Optional[datetime]: the value of now() read at line 379
    lines,     \* the list `lines` of _adju (empty until built)
    out,       \* the lines echoed by the running call, in order
    err,       \* the exception that ended the running call, or "none"
    atime,     \* Optional[str]: local `adju_time` of _adju after line 365
    replay,    \* test_adju_output: index into phase_order, 0 when not running
    replayed,  \* test_adju_output: what each finished _adju call echoed
    ticks,     \* how many times the clock has been advanced
    trail,     \* the phases visited by following successors
    gd         \* the last direct call of get_deadline / time_is_valid

vars == <<data, clock, pc, args, phase, game, days, deadline, now2, lines,
          out, err, atime, replay, replayed, ticks, trail, gd>>

-----------------------------------------------------------------------------
(* Bounds of the model. *)

\* years are drawn from 0-MaxYear..MaxYear and BaseYear-MaxYear..BaseYear+MaxYear
MaxYear == 2
\* get_deadline is called with days_until in -MaxDays..MaxDays
MaxDays == 2
\* adju is called with --days-until in -MaxAdjuDays..MaxAdjuDays
MaxAdjuDays == 1
\* the successor walk visits at most MaxTrail phases
MaxTrail == 7
\* the clock is advanced at most MaxTicks times
MaxTicks == 1
\* the year of the worked example in get_deadline's comment
BaseYear == 2026

-----------------------------------------------------------------------------
(* Strings *)

None == {}
Some(x) == {x}
The(o) == CHOOSE x \in o : TRUE

Char(s, i) == SubSeq(s, i, i)

UpperLetters == "ABCDEFGHIJKLMNOPQRSTUVWXYZ"
LowerLetters == "abcdefghijklmnopqrstuvwxyz"
Digits == "0123456789"

\* str.strip() removes these from both ends
Whitespace == {" ", "\t", "\n", "\r", "\f"}

IndexIn(alphabet, c) ==
    IF \E i \in 1..Len(alphabet) : Char(alphabet, i) = c
    THEN CHOOSE i \in 1..Len(alphabet) : Char(alphabet, i) = c
    ELSE 0

RECURSIVE lstrip(_)
lstrip(s) ==
    IF Len(s) > 0 /\ Char(s, 1) \in Whitespace
    THEN lstrip(SubSeq(s, 2, Len(s)))
    ELSE s

RECURSIVE rstrip(_)
rstrip(s) ==
    IF Len(s) > 0 /\ Char(s, Len(s)) \in Whitespace
    THEN rstrip(SubSeq(s, 1, Len(s) - 1))
    ELSE s

strip(s) == rstrip(lstrip(s))

LowerChar(c) ==
    IF IndexIn(UpperLetters, c) > 0
    THEN Char(LowerLetters, IndexIn(UpperLetters, c))
    ELSE c

UpperChar(c) ==
    IF IndexIn(LowerLetters, c) > 0
    THEN Char(UpperLetters, IndexIn(LowerLetters, c))
    ELSE c

RECURSIVE lower(_)
lower(s) ==
    IF Len(s) = 0 THEN ""
    ELSE LowerChar(Char(s, 1)) \o lower(SubSeq(s, 2, Len(s)))

RECURSIVE upper(_)
upper(s) ==
    IF Len(s) = 0 THEN ""
    ELSE UpperChar(Char(s, 1)) \o upper(SubSeq(s, 2, Len(s)))

\* f"{n}" for an int
str(n) == ToString(n)

EndsWith(s, t) ==
    Len(s) >= Len(t) /\ SubSeq(s, Len(s) - Len(t) + 1, Len(s)) = t

StartsWith(s, t) ==
    Len(s) >= Len(t) /\ SubSeq(s, 1, Len(t)) = t

\* the number of places where t occurs in s
Occurrences(s, t) ==
    Cardinality({i \in 1..Len(s) :
        i + Len(t) - 1 <= Len(s) /\ SubSeq(s, i, i + Len(t) - 1) = t})

-----------------------------------------------------------------------------
(* PhaseType, Season, Phase, CurrentPhase *)

MOVES == "Moves"
RETREATS == "Retreats"
ADJUSTMENTS == "Adjustments"
PhaseType == {MOVES, RETREATS, ADJUSTMENTS}

SPRING == "Spring"
FALL == "Fall"
WINTER == "Winter"
Season == {SPRING, FALL, WINTER}

Phase(season, year, phase_type) ==
    [season |-> season, year |-> year, phase_type |-> phase_type]

CurrentPhase(season, year, phase_type, nxt) ==
    [season |-> season, year |-> year, phase_type |-> phase_type, nxt |-> nxt]

\* Phase.simple_title
simple_title(self) ==
    LET ret == self.season \o " " \o str(self.year)
    IN  IF self.phase_type = RETREATS THEN ret \o " Retreats" ELSE ret

\* CurrentPhase._phase_map
PhaseKeys == {"s", "sr", "f", "fr", "w"}

phase_map_skips_fall ==
    [k \in PhaseKeys |->
        CASE k = "s"  -> <<SPRING, MOVES, SPRING, RETREATS>>
          [] k = "sr" -> <<SPRING, RETREATS, WINTER, ADJUSTMENTS>>
          [] k = "f"  -> <<FALL, MOVES, FALL, RETREATS>>
          [] k = "fr" -> <<FALL, RETREATS, WINTER, ADJUSTMENTS>>
          [] k = "w"  -> <<WINTER, ADJUSTMENTS, SPRING, MOVES>>]

phase_map ==
    [k \in PhaseKeys |->
        CASE k = "s"  -> <<SPRING, MOVES, SPRING, RETREATS>>
          [] k = "sr" -> <<SPRING, RETREATS, FALL, MOVES>>
          [] k = "f"  -> <<FALL, MOVES, FALL, RETREATS>>
          [] k = "fr" -> <<FALL, RETREATS, WINTER, ADJUSTMENTS>>
          [] k = "w"  -> <<WINTER, ADJUSTMENTS, SPRING, MOVES>>]

\* the year of the successor: year + (1 if cur_season == Season.WINTER else 0)
NextYearSameYear(cur_season, year) == year

NextYearAlways(cur_season, year) == year + 1

NextYear(cur_season, year) ==
    year + (IF cur_season = WINTER THEN 1 ELSE 0)

\* CurrentPhase.create_phase
create_phase(phase_key, year) ==
    LET k == lower(strip(phase_key))
    IN  IF k \notin DOMAIN phase_map
        THEN [err |-> "KeyError"]
        ELSE LET t == phase_map[k]
             IN  [err |-> "none",
                  val |-> CurrentPhase(t[1], year, t[2],
                              Phase(t[3], NextYear(t[1], year), t[4]))]

moves_title_suffix_twice(self) ==
    LET ret == simple_title(self)
    IN  CASE self.phase_type = RETREATS    -> ret \o " Retreats"
          [] self.phase_type = MOVES       -> ret \o " Moves"
          [] self.phase_type = ADJUSTMENTS -> ret \o " Adjustments"

\* CurrentPhase.moves_title
moves_title(self) ==
    LET ret == simple_title(self)
    IN  CASE self.phase_type = RETREATS    -> ret
          [] self.phase_type = MOVES       -> ret \o " Moves"
          [] self.phase_type = ADJUSTMENTS -> ret \o " Adjustments"

results_title_own(self) ==
    CASE self.phase_type \in {RETREATS, ADJUSTMENTS} -> simple_title(self)
      [] self.phase_type = MOVES -> simple_title(self) \o " Results"

\* CurrentPhase.results_title
results_title(self) ==
    CASE self.phase_type \in {RETREATS, ADJUSTMENTS} -> simple_title(self.nxt)
      [] self.phase_type = MOVES -> simple_title(self) \o " Results"

-----------------------------------------------------------------------------
(* int(), str.split(':') *)

DigitValue(c) == IndexIn(Digits, c) - 1
IsDigit(c) == IndexIn(Digits, c) > 0

\* s.split(sep) for a one-character separator: the list of the pieces
RECURSIVE split(_, _)
split(s, sep) ==
    IF \E i \in 1..Len(s) : Char(s, i) = sep
    THEN LET i == CHOOSE j \in 1..Len(s) :
                     /\ Char(s, j) = sep
                     /\ \A h \in 1..(j - 1) : Char(s, h) # sep
         IN  <<SubSeq(s, 1, i - 1)>> \o split(SubSeq(s, i + 1, Len(s)), sep)
    ELSE <<s>>

\* the digits of an int literal: digits with single underscores between them
IsDigitString(s) ==
    /\ Len(s) > 0
    /\ IsDigit(Char(s, 1))
    /\ IsDigit(Char(s, Len(s)))
    /\ \A i \in 1..Len(s) : IsDigit(Char(s, i)) \/ Char(s, i) = "_"
    /\ \A i \in 1..(Len(s) - 1) : ~(Char(s, i) = "_" /\ Char(s, i + 1) = "_")

RECURSIVE DigitsValue(_, _)
DigitsValue(s, acc) ==
    IF Len(s) = 0 THEN acc
    ELSE IF Char(s, 1) = "_" THEN DigitsValue(SubSeq(s, 2, Len(s)), acc)
    ELSE DigitsValue(SubSeq(s, 2, Len(s)), 10 * acc + DigitValue(Char(s, 1)))

\* int(s): surrounding whitespace, an optional sign, then the digits
int(s) ==
    LET t == strip(s)
        signed == Len(t) > 0 /\ Char(t, 1) \in {"+", "-"}
        body == IF signed THEN SubSeq(t, 2, Len(t)) ELSE t
    IN  IF ~IsDigitString(body) THEN [err |-> "ValueError"]
        ELSE [err |-> "none",
              val |-> IF signed /\ Char(t, 1) = "-"
                      THEN 0 - DigitsValue(body, 0)
                      ELSE DigitsValue(body, 0)]

\* `h, m = map(int, time.split(':'))`: exactly two pieces, each an int
ParseTime(time) ==
    LET parts == split(time, ":")
    IN  IF Len(parts) # 2 THEN [err |-> "ValueError"]
        ELSE IF int(parts[1]).err # "none" \/ int(parts[2]).err # "none"
        THEN [err |-> "ValueError"]
        ELSE [err |-> "none", val |-> <<int(parts[1]).val, int(parts[2]).val>>]

\* the range test of time_is_valid: any(59 < t or 0 > t for t in (h, m))
OutOfRange(h, m) == \E t \in {h, m} : 59 < t \/ 0 > t

\* time_is_valid
time_is_valid(time) ==
    LET p == ParseTime(time)
    IN  IF p.err # "none" THEN FALSE
        ELSE IF OutOfRange(p.val[1], p.val[2]) THEN FALSE
        ELSE TRUE

-----------------------------------------------------------------------------
(* datetime, timedelta, ZoneInfo *)

\* the zones the model knows, each with its offset from UTC in minutes at
\* the instants the model draws (standard time)
ZoneOffset ==
    [z \in {"America/Los_Angeles", "UTC", "Asia/Kolkata"} |->
        CASE z = "America/Los_Angeles" -> 0 - 480
          [] z = "UTC" -> 0
          [] z = "Asia/Kolkata" -> 330]

\* ZoneInfo(key)
ZoneInfo(key) ==
    IF key \in DOMAIN ZoneOffset
    THEN [err |-> "none", val |-> key]
    ELSE [err |-> "ZoneInfoNotFoundError"]

is_leap(year) == year % 4 = 0 /\ (year % 100 # 0 \/ year % 400 = 0)

days_before_year(year) ==
    LET y == year - 1
    IN  y * 365 + (y \div 4) - (y \div 100) + (y \div 400)

DAYS_IN_MONTH == <<31, 28, 31, 30, 31, 30, 31, 31, 30, 31, 30, 31>>

DAYS_BEFORE_MONTH == <<0, 31, 59, 90, 120, 151, 181, 212, 243, 273, 304, 334>>

days_in_month(year, month) ==
    IF month = 2 /\ is_leap(year) THEN 29 ELSE DAYS_IN_MONTH[month]

days_before_month(year, month) ==
    DAYS_BEFORE_MONTH[month] + (IF month > 2 /\ is_leap(year) THEN 1 ELSE 0)

ymd2ord(year, month, day) ==
    days_before_year(year) + days_before_month(year, month) + day

ord2ymd(ordinal) ==
    LET n0 == ordinal - 1
        n400 == n0 \div 146097
        r400 == n0 % 146097
        n100 == r400 \div 36524
        r100 == r400 % 36524
        n4 == r100 \div 1461
        r4 == r100 % 1461
        n1 == r4 \div 365
        n == r4 % 365
        year == n400 * 400 + 1 + n100 * 100 + n4 * 4 + n1
        leapyear == n1 = 3 /\ (n4 # 24 \/ n100 = 3)
        month0 == (n + 50) \div 32
        preceding0 == DAYS_BEFORE_MONTH[month0]
                        + (IF month0 > 2 /\ leapyear THEN 1 ELSE 0)
        month == IF preceding0 > n THEN month0 - 1 ELSE month0
        preceding ==
            IF preceding0 > n
            THEN preceding0 - (DAYS_IN_MONTH[month]
                                + (IF month = 2 /\ leapyear THEN 1 ELSE 0))
            ELSE preceding0
    IN  IF n1 = 4 \/ n100 = 4
        THEN <<year - 1, 12, 31>>
        ELSE <<year, month, n - preceding + 1>>

\* timedelta(days, seconds, microseconds), normalised as CPython does:
\* 0 <= microseconds < 1000000, 0 <= seconds < 86400, days carries the sign
timedelta(d, s, us) ==
    LET s1 == s + (us \div 1000000)
    IN  [days |-> d + (s1 \div 86400),
         seconds |-> s1 % 86400,
         microseconds |-> us % 1000000]

\* the checks of the datetime constructor
DatetimeFieldsOk(year, month, day, hour, minute) ==
    /\ 1 <= year /\ year <= 9999
    /\ 1 <= month /\ month <= 12
    /\ 1 <= day /\ day <= days_in_month(year, month)
    /\ 0 <= hour /\ hour <= 23
    /\ 0 <= minute /\ minute <= 59

datetime(year, month, day, hour, minute, second, microsecond, tz) ==
    [year |-> year, month |-> month, day |-> day, hour |-> hour,
     minute |-> minute, second |-> second, microsecond |-> microsecond,
     tz |-> tz]

toordinal(t) == ymd2ord(t.year, t.month, t.day)

SecondOfDay(t) == t.hour * 3600 + t.minute * 60 + t.second

\* datetime + timedelta: the wall clock moves, the zone stays
DatetimeAdd(t, delta) ==
    LET sum == timedelta(toordinal(t) + delta.days,
                         SecondOfDay(t) + delta.seconds,
                         t.microsecond + delta.microseconds)
        ymd == ord2ymd(sum.days)
    IN  IF 0 < sum.days /\ sum.days <= 3652059
        THEN [err |-> "none",
              val |-> datetime(ymd[1], ymd[2], ymd[3],
                               sum.seconds \div 3600,
                               (sum.seconds % 3600) \div 60,
                               (sum.seconds % 3600) % 60,
                               sum.microseconds, t.tz)]
        ELSE [err |-> "OverflowError"]

\* datetime - datetime for two values of the same zone object: the
\* difference of the wall clocks
DatetimeSub(a, b) ==
    timedelta(toordinal(a) - toordinal(b),
              SecondOfDay(a) - SecondOfDay(b),
              a.microsecond - b.microsecond)

\* an instant is [ord, seconds, microseconds] in UTC
Instant(ord, seconds, microseconds) ==
    [ord |-> ord, seconds |-> seconds, microseconds |-> microseconds]

\* datetime.now(tz=ZoneInfo(tz)) at instant t
now(t, tz) ==
    LET loc == timedelta(t.ord, t.seconds + 60 * ZoneOffset[tz], t.microseconds)
        ymd == ord2ymd(loc.days)
    IN  datetime(ymd[1], ymd[2], ymd[3],
                 loc.seconds \div 3600,
                 (loc.seconds % 3600) \div 60,
                 (loc.seconds % 3600) % 60,
                 loc.microseconds, tz)

\* the last line of get_deadline
ReturnNextOccurrence(n, target_time_today, days_until) ==
    IF DatetimeSub(target_time_today, n).days < 0
    THEN DatetimeAdd(target_time_today, timedelta(days_until + 1, 0, 0))
    ELSE DatetimeAdd(target_time_today, timedelta(days_until, 0, 0))

ReturnDeadline(n, target_time_today, days_until) ==
    DatetimeAdd(target_time_today, timedelta(days_until, 0, 0))

\* get_deadline, called at instant t
get_deadline(days_until, adju_time, adju_tz, t) ==
    LET p == ParseTime(adju_time)
    IN  IF p.err # "none" THEN [err |-> "ValueError: Invalid timestamp"]
        ELSE IF ZoneInfo(adju_tz).err # "none" THEN [err |-> ZoneInfo(adju_tz).err]
        ELSE LET n == now(t, adju_tz)
                 hour == p.val[1]
                 minute == p.val[2]
             IN  IF ~DatetimeFieldsOk(n.year, n.month, n.day, hour, minute)
                 THEN [err |-> "ValueError"]
                 ELSE IF days_until > 999999999 \/ days_until < 0 - 999999999
                 THEN [err |-> "OverflowError"]
                 ELSE ReturnDeadline(n,
                        datetime(n.year, n.month, n.day, hour, minute, 0, 0, adju_tz),
                        days_until)

-----------------------------------------------------------------------------
(* GameConfigDefaults, Game, Data *)

\* GameConfigDefaults, with the name Game.__init__ sets
Game(name) ==
    [name |-> name,
     adju_time |-> "14:00",
     adju_tz |-> "America/Los_Angeles",
     move_length |-> 2,
     retreat_length |-> 1,
     adjustment_length |-> 1]

\* GameConfigOverrides: each field an Optional
GameConfigOverrides(time, tz, move, retreat, adjustment) ==
    [adju_time |-> time, adju_tz |-> tz, move_length |-> move,
     retreat_length |-> retreat, adjustment_length |-> adjustment]

\* Game.apply_overrides: only the fields that are not None are set
apply_overrides(self, overrides) ==
    [f \in DOMAIN self |->
        IF f \in DOMAIN overrides /\ overrides[f] # None
        THEN The(overrides[f])
        ELSE self[f]]

\* Data(): what load_data returns when there is no file yet
EmptyData == [games |-> <<>>, nicknames |-> <<>>]

\* d[k] = v on a dict
DictSet(d, k, v) == [x \in DOMAIN d \cup {k} |-> IF x = k THEN v ELSE d[x]]

\* del d[k] for every k in ks
DictDel(d, ks) == [x \in DOMAIN d \ ks |-> d[x]]

\* Data.get_game
get_game(self, name) ==
    IF name \notin DOMAIN self.games
    THEN IF name \in DOMAIN self.nicknames
         THEN IF self.nicknames[name] \in DOMAIN self.games
              THEN [err |-> "none", val |-> self.games[self.nicknames[name]]]
              ELSE [err |-> "KeyError"]
         ELSE [err |-> "ValueError: No game called"]
    ELSE [err |-> "none", val |-> self.games[name]]

-----------------------------------------------------------------------------
(* The strings _adju builds *)

\* int(deadline.timestamp()): seconds since 1970-01-01T00:00Z
timestamp(t) ==
    (toordinal(t) - 719163) * 86400 + SecondOfDay(t) - 60 * ZoneOffset[t.tz]

\* f"<t:{timestamp}:" + "{}>" with the directive filled in
discord_timestamp(ts, directive) ==
    "<t:" \o str(ts) \o ":" \o directive \o ">"

WeekdayNames ==
    <<"Monday", "Tuesday", "Wednesday", "Thursday", "Friday", "Saturday", "Sunday">>

MonthNames ==
    <<"January", "February", "March", "April", "May", "June", "July",
      "August", "September", "October", "November", "December">>

\* %d, %H, %M: two digits
Pad2(n) == IF n < 10 THEN "0" \o str(n) ELSE str(n)

\* deadline.astimezone(ZoneInfo(tz)).strftime('%A, %B %d, %Y %H:%M')
strftime(t) ==
    WeekdayNames[((toordinal(t) + 6) % 7) + 1] \o ", "
        \o MonthNames[t.month] \o " " \o Pad2(t.day) \o ", " \o str(t.year)
        \o " " \o Pad2(t.hour) \o ":" \o Pad2(t.minute)

\* the three numbers of rendered_R:
\* delta.days, delta.seconds // 3600, (delta.seconds // 60) % 60
RelativePartsNoWrap(delta) ==
    <<delta.days, delta.seconds \div 3600, delta.seconds \div 60>>

RelativeParts(delta) ==
    <<delta.days, delta.seconds \div 3600, (delta.seconds \div 60) % 60>>

rendered_R(delta) ==
    LET p == RelativeParts(delta)
    IN  "in " \o str(p[1]) \o "d " \o str(p[2]) \o "h " \o str(p[3]) \o "m"

\* the list `lines` of _adju
Lines(ph, g, dl, n2) ==
    LET ts == timestamp(dl)
        timestamp_str == discord_timestamp(ts, "F") \o " " \o discord_timestamp(ts, "R")
        following_title == simple_title(ph.nxt)
    IN  << "**" \o simple_title(ph) \o " has been adjudicated. The phase is now "
                \o following_title \o ".** Orders are due " \o timestamp_str \o ".",
           "**" \o upper(following_title) \o ": " \o timestamp_str \o "**",
           "**" \o upper(g.name) \o " " \o upper(moves_title(ph)) \o "**",
           "**" \o upper(g.name) \o " " \o upper(results_title(ph)) \o "**",
           discord_timestamp(ts, "F"),
           "\nRendered timestamp:\n\t" \o strftime(dl) \o "\n\t"
                \o rendered_R(DatetimeSub(dl, n2)) >>

\* the `match phase.nxt.phase_type` of _adju
LengthOfCurrent(g, ph) ==
    CASE ph.phase_type = MOVES       -> g.move_length
      [] ph.phase_type = RETREATS    -> g.retreat_length
      [] ph.phase_type = ADJUSTMENTS -> g.adjustment_length

LengthOfNext(g, ph) ==
    CASE ph.nxt.phase_type = MOVES       -> g.move_length
      [] ph.nxt.phase_type = RETREATS    -> g.retreat_length
      [] ph.nxt.phase_type = ADJUSTMENTS -> g.adjustment_length

\* `if days_until is None: ...`
ResolveDays(days_until, g, ph) ==
    IF days_until = None THEN LengthOfNext(g, ph) ELSE The(days_until)

-----------------------------------------------------------------------------
(* The arguments the model draws *)

AdjuArgs(game_name, phase_name, year, days_until, no_window, time) ==
    [game_name |-> game_name, phase_name |-> phase_name, year |-> year,
     days_until |-> days_until, no_window |-> no_window, adju_time |-> time]

NoArgs == AdjuArgs("", "", 0, None, FALSE, None)

Optional(S) == {None} \cup {Some(x) : x \in S}

GameNames == {"wc"}
NicknameNames == {"w"}
FullNames == {"wc", "zz"}
AdjuGameNames == {"wc", "w", "zz"}

AdjuKeys == PhaseKeys \cup {"x"}
AdjuYears == {BaseYear}
AdjuDays == Optional((0 - MaxAdjuDays)..MaxAdjuDays)
AdjuTimes == Optional({"25:99"})

\* the option sets create_game and edit_game are called with
OverrideSets ==
    { GameConfigOverrides(None, None, None, None, None),
      GameConfigOverrides(Some("24:00"), None, None, None, None),
      GameConfigOverrides(None, Some("Mars/Phobos"), None, None, None),
      GameConfigOverrides(None, Some("Asia/Kolkata"), Some(5), Some(3), Some(4)) }

RawKeys ==
    {"s", "sr", "f", "fr", "w", " S ", "SR", "Fr\n", "\tW", "sR ",
     "x", "", "ss", "s r", "r", "winter"}

Years == ((0 - MaxYear)..MaxYear) \cup ((BaseYear - MaxYear)..(BaseYear + MaxYear))

TimeStrings ==
    {"14:00", "00:00", "23:59", "24:00", "59:59", "25:99", "14:60", "60:00",
     "-1:30", "9:5", " 7 : 05 ", "+2:3", "1_0:0_5", "1400", "14:00:00",
     "ab:cd", "", ":", "14:", "1__0:00", "14.5:00"}

Zones == {"America/Los_Angeles", "UTC", "Asia/Kolkata", "Mars/Phobos"}

DeadlineDays == ((0 - MaxDays)..MaxDays) \cup {3652059, 1000000000}

\* 13:50 on 1 Jan 2026 in Los Angeles
ExampleInstant == Instant(ymd2ord(BaseYear, 1, 1), 21 * 3600 + 50 * 60, 0)

StartInstants ==
    { ExampleInstant,
      Instant(ymd2ord(BaseYear - 1, 12, 31), 86399, 999999),
      Instant(ymd2ord(BaseYear - 2, 2, 28), 22 * 3600 + 10 * 60, 0),
      Instant(ymd2ord(BaseYear, 2, 28), 12 * 3600, 1) }

\* each advance of the clock: twenty minutes and half a second
TickSteps == {timedelta(0, 1200, 500000)}

-----------------------------------------------------------------------------
(* The store commands *)

Idle == pc = "idle" /\ replay = 0

locals == <<args, phase, game, days, deadline, now2, lines, out, err, atime>>

LocalsReset ==
    /\ args' = NoArgs
    /\ phase' = None
    /\ game' = None
    /\ days' = None
    /\ deadline' = None
    /\ now2' = None
    /\ lines' = <<>>
    /\ out' = <<>>
    /\ err' = "none"
    /\ atime' = None

\* _set_nickname
SetNickname(d, full_name, nickname) ==
    [d EXCEPT !.nicknames = DictSet(d.nicknames, nickname, full_name)]

\* create_game: an existing name is left alone; load_data, then save_data
create_game(name, o, nicks) ==
    /\ Idle
    /\ data' = IF name \in DOMAIN data.games
               THEN data
               ELSE LET g == apply_overrides(Game(name), o)
                        d1 == [data EXCEPT !.games = DictSet(data.games, name, g)]
                    IN  IF nicks = None THEN d1
                        ELSE SetNickname(d1, name, The(nicks))
    /\ UNCHANGED <<clock, pc, locals, replay, replayed, ticks, trail, gd>>

\* delete_game: `del data.games[name]` raises KeyError for an unknown name,
\* and then nothing is saved
delete_game(name) ==
    /\ Idle
    /\ data' = IF name \notin DOMAIN data.games
               THEN data
               ELSE [games |-> DictDel(data.games, {name}),
                     nicknames |-> DictDel(data.nicknames,
                         {n \in DOMAIN data.nicknames : data.nicknames[n] = name})]
    /\ UNCHANGED <<clock, pc, locals, replay, replayed, ticks, trail, gd>>

\* edit_game: get_game raises for an unknown name, and then nothing is saved
edit_game(name, o) ==
    /\ Idle
    /\ data' = LET r == get_game(data, name)
               IN  IF r.err # "none" THEN data
                   ELSE [data EXCEPT !.games =
                            DictSet(data.games, r.val.name, apply_overrides(r.val, o))]
    /\ UNCHANGED <<clock, pc, locals, replay, replayed, ticks, trail, gd>>

\* set_nickname: the full name is not looked up
set_nickname(full_name, nickname) ==
    /\ Idle
    /\ data' = SetNickname(data, full_name, nickname)
    /\ UNCHANGED <<clock, pc, locals, replay, replayed, ticks, trail, gd>>

\* remove_nickname: `del data.nicknames[nickname]` raises KeyError for an
\* unknown nickname, and then nothing is saved
remove_nickname(nickname) ==
    /\ Idle
    /\ data' = IF nickname \in DOMAIN data.nicknames
               THEN [data EXCEPT !.nicknames = DictDel(data.nicknames, {nickname})]
               ELSE data
    /\ UNCHANGED <<clock, pc, locals, replay, replayed, ticks, trail, gd>>

-----------------------------------------------------------------------------
(* Time passing *)

\* the clock moves on between two reads of datetime.now
Tick ==
    /\ ticks < MaxTicks
    /\ pc \in {"idle", "render"}
    /\ \E step \in TickSteps :
          LET t == timedelta(clock.ord + step.days,
                             clock.seconds + step.seconds,
                             clock.microseconds + step.microseconds)
          IN  clock' = Instant(t.days, t.seconds, t.microseconds)
    /\ ticks' = ticks + 1
    /\ UNCHANGED <<data, pc, locals, replay, replayed, trail, gd>>

-----------------------------------------------------------------------------
(* adju / _adju *)

\* the adju command: _adju(*args, **kwargs)
adju(game_name, phase_name, year, days_until, no_window, time) ==
    /\ Idle
    /\ pc' = "create_phase"
    /\ args' = AdjuArgs(game_name, phase_name, year, days_until, no_window, time)
    /\ UNCHANGED <<data, clock, phase, game, days, deadline, now2, lines, out,
                   err, atime, replay, replayed, ticks, trail, gd>>

\* line 353: phase = CurrentPhase.create_phase(phase_name, year)
AdjuCreatePhase ==
    /\ pc = "create_phase"
    /\ LET r == create_phase(args.phase_name, args.year)
       IN  IF r.err # "none"
           THEN /\ pc' = "error"
                /\ err' = r.err
                /\ phase' = phase
           ELSE /\ pc' = "get_game"
                /\ err' = err
                /\ phase' = Some(r.val)
    /\ UNCHANGED <<data, clock, args, game, days, deadline, now2, lines, out,
                   atime, replay, replayed, ticks, trail, gd>>

\* lines 355-356: data = load_data(); game = data.get_game(game_name)
AdjuGetGame ==
    /\ pc = "get_game"
    /\ LET r == get_game(data, args.game_name)
       IN  IF r.err # "none"
           THEN /\ pc' = "error"
                /\ err' = r.err
                /\ game' = game
           ELSE /\ pc' = "resolve"
                /\ err' = err
                /\ game' = Some(r.val)
    /\ UNCHANGED <<data, clock, args, phase, days, deadline, now2, lines, out,
                   atime, replay, replayed, ticks, trail, gd>>

\* lines 358-365: the defaults of days_until and adju_time
AdjuResolve ==
    /\ pc = "resolve"
    /\ days' = Some(ResolveDays(args.days_until, The(game), The(phase)))
    /\ atime' = IF args.adju_time = None
                THEN Some(The(game).adju_time)
                ELSE args.adju_time
    /\ pc' = "get_deadline"
    /\ UNCHANGED <<data, clock, args, phase, game, deadline, now2, lines, out,
                   err, replay, replayed, ticks, trail, gd>>

\* line 367: deadline = get_deadline(days_until, adju_time, game.adju_tz)
AdjuGetDeadline ==
    /\ pc = "get_deadline"
    /\ LET r == get_deadline(The(days), The(atime), The(game).adju_tz, clock)
       IN  IF r.err # "none"
           THEN /\ pc' = "error"
                /\ err' = r.err
                /\ deadline' = deadline
           ELSE /\ pc' = "render"
                /\ err' = err
                /\ deadline' = Some(r.val)
    /\ UNCHANGED <<data, clock, args, phase, game, days, now2, lines, out,
                   atime, replay, replayed, ticks, trail, gd>>

\* lines 369-389: the titles, the second read of the clock, the list `lines`
AdjuRender ==
    /\ pc = "render"
    /\ now2' = Some(now(clock, The(game).adju_tz))
    /\ lines' = Lines(The(phase), The(game), The(deadline),
                      now(clock, The(game).adju_tz))
    /\ pc' = "echo"
    /\ UNCHANGED <<data, clock, args, phase, game, days, deadline, out, err,
                   atime, replay, replayed, ticks, trail, gd>>

EchoListButLast(ls) == SubSeq(ls, 1, Len(ls) - 1)

\* the list the loop of line 391 goes through
EchoList(ls) == ls

\* lines 391-392: for line in lines: echo(line)
AdjuEcho ==
    /\ pc = "echo"
    /\ out' = Append(out, EchoList(lines)[Len(out) + 1])
    /\ pc' = IF Len(out) + 1 = Len(EchoList(lines)) THEN "window" ELSE "echo"
    /\ UNCHANGED <<data, clock, args, phase, game, days, deadline, now2, lines,
                   err, atime, replay, replayed, ticks, trail, gd>>

\* lines 394-408: return when no_window; else tk.Tk() opens the window, or
\* raises TclError where there is no display
AdjuWindow ==
    /\ pc = "window"
    /\ \/ /\ args.no_window
          /\ pc' = "done"
          /\ err' = err
       \/ /\ ~args.no_window
          /\ pc' = "mainloop"
          /\ err' = err
       \/ /\ ~args.no_window
          /\ pc' = "error"
          /\ err' = "TclError"
    /\ UNCHANGED <<data, clock, args, phase, game, days, deadline, now2, lines,
                   out, atime, replay, replayed, ticks, trail, gd>>

\* line 410: root.mainloop() returns when the window is closed
AdjuMainloop ==
    /\ pc = "mainloop"
    /\ pc' = "done"
    /\ UNCHANGED <<data, clock, args, phase, game, days, deadline, now2, lines,
                   out, err, atime, replay, replayed, ticks, trail, gd>>

\* the adju command ends, normally or with the exception
AdjuReturn ==
    /\ pc \in {"done", "error"}
    /\ replay = 0
    /\ pc' = "idle"
    /\ LocalsReset
    /\ UNCHANGED <<data, clock, replay, replayed, ticks, trail, gd>>

-----------------------------------------------------------------------------
(* test_adju_output *)

phase_order == <<"s", "sr", "f", "fr", "w">>

ReplayGames == {"wc"}
ReplayYears == {0, BaseYear}
ReplayDays == {None, Some(0)}

\* test_adju_output: the first _adju call of the loop.  The command itself
\* passes ("wc", phase, 0, no_window=True); the year and days_until are also
\* drawn from the values the regression property is stated for.
test_adju_output(game_name, year, days_until) ==
    /\ Idle
    /\ replay' = 1
    /\ replayed' = <<>>
    /\ pc' = "create_phase"
    /\ args' = AdjuArgs(game_name, phase_order[1], year, days_until, TRUE, None)
    /\ UNCHANGED <<data, clock, phase, game, days, deadline, now2, lines, out,
                   err, atime, ticks, trail, gd>>

\* an _adju call of the loop returned: the next key, or the end of the loop
ReplayNext ==
    /\ replay > 0
    /\ pc = "done"
    /\ replayed' = Append(replayed, out)
    /\ IF replay < Len(phase_order)
       THEN /\ replay' = replay + 1
            /\ pc' = "create_phase"
            /\ args' = [args EXCEPT !.phase_name = phase_order[replay + 1]]
            /\ phase' = None
            /\ game' = None
            /\ days' = None
            /\ deadline' = None
            /\ now2' = None
            /\ lines' = <<>>
            /\ out' = <<>>
            /\ err' = "none"
            /\ atime' = None
       ELSE /\ replay' = replay
            /\ pc' = "replayed"
            /\ UNCHANGED locals
    /\ UNCHANGED <<data, clock, ticks, trail, gd>>

\* the loop is over: the command ends
ReplayReturn ==
    /\ replay > 0
    /\ pc = "replayed"
    /\ replay' = 0
    /\ replayed' = <<>>
    /\ pc' = "idle"
    /\ LocalsReset
    /\ UNCHANGED <<data, clock, ticks, trail, gd>>

\* an _adju call of the loop raised: the exception ends the command
ReplayAbort ==
    /\ replay > 0
    /\ pc = "error"
    /\ replay' = 0
    /\ replayed' = <<>>
    /\ pc' = "idle"
    /\ LocalsReset
    /\ UNCHANGED <<data, clock, ticks, trail, gd>>

-----------------------------------------------------------------------------
(* The program *)

InitLocals ==
    /\ pc = "idle"
    /\ args = NoArgs
    /\ phase = None
    /\ game = None
    /\ days = None
    /\ deadline = None
    /\ now2 = None
    /\ lines = <<>>
    /\ out = <<>>
    /\ err = "none"
    /\ atime = None
    /\ replay = 0
    /\ replayed = <<>>
    /\ ticks = 0
    /\ trail = <<>>
    /\ gd = None

Init ==
    /\ InitLocals
    /\ data = EmptyData
    /\ clock = ExampleInstant

Next ==
    \/ \E n \in GameNames, o \in OverrideSets, k \in Optional(NicknameNames) :
            create_game(n, o, k)
    \/ \E n \in GameNames : delete_game(n)
    \/ \E n \in AdjuGameNames, o \in OverrideSets : edit_game(n, o)
    \/ \E f \in FullNames, k \in NicknameNames : set_nickname(f, k)
    \/ \E k \in NicknameNames : remove_nickname(k)
    \/ Tick
    \/ \E g \in AdjuGameNames, p \in AdjuKeys, y \in AdjuYears, d \in AdjuDays,
          w \in BOOLEAN, t \in AdjuTimes : adju(g, p, y, d, w, t)
    \/ AdjuCreatePhase
    \/ AdjuGetGame
    \/ AdjuResolve
    \/ AdjuGetDeadline
    \/ AdjuRender
    \/ AdjuEcho
    \/ AdjuWindow
    \/ AdjuMainloop
    \/ AdjuReturn
    \/ \E g \in ReplayGames, y \in ReplayYears, d \in ReplayDays :
            test_adju_output(g, y, d)
    \/ ReplayNext
    \/ ReplayReturn
    \/ ReplayAbort

Spec == Init /\ [][Next]_vars

-----------------------------------------------------------------------------
(* The phase model on its own: create_phase on every key and year, and the *)
(* walk from a phase to its successor                                      *)

\* CurrentPhase.create_phase(k, y), called directly
PhaseCreate(k, y) ==
    /\ pc = "idle"
    /\ phase = None
    /\ err = "none"
    /\ args' = AdjuArgs("", k, y, None, TRUE, None)
    /\ LET r == create_phase(k, y)
       IN  IF r.err # "none"
           THEN /\ err' = r.err
                /\ phase' = None
                /\ trail' = <<>>
           ELSE /\ err' = "none"
                /\ phase' = Some(r.val)
                /\ trail' = <<r.val>>
    /\ UNCHANGED <<data, clock, pc, game, days, deadline, now2, lines, out,
                   atime, replay, replayed, ticks, gd>>

\* the keys whose current phase is p
KeysOf(p) ==
    {k \in DOMAIN phase_map :
        phase_map[k][1] = p.season /\ phase_map[k][2] = p.phase_type}

\* the successor becomes the current phase: create_phase on its key and year
PhaseAdvance ==
    /\ pc = "idle"
    /\ phase # None
    /\ Len(trail) < MaxTrail
    /\ \E k \in KeysOf(The(phase).nxt) :
          LET r == create_phase(k, The(phase).nxt.year)
          IN  /\ r.err = "none"
              /\ args' = AdjuArgs("", k, The(phase).nxt.year, None, TRUE, None)
              /\ phase' = Some(r.val)
              /\ trail' = Append(trail, r.val)
    /\ UNCHANGED <<data, clock, pc, game, days, deadline, now2, lines, out,
                   err, atime, replay, replayed, ticks, gd>>

\* the CurrentPhase, or the exception, is dropped
PhaseDiscard ==
    /\ pc = "idle"
    /\ phase # None \/ err # "none"
    /\ LocalsReset
    /\ trail' = <<>>
    /\ UNCHANGED <<data, clock, pc, replay, replayed, ticks, gd>>

InitPhase ==
    /\ InitLocals
    /\ data = EmptyData
    /\ clock = ExampleInstant

NextPhase ==
    \/ \E k \in RawKeys, y \in Years : PhaseCreate(k, y)
    \/ PhaseAdvance
    \/ PhaseDiscard

SpecPhase == InitPhase /\ [][NextPhase]_vars

-----------------------------------------------------------------------------
(* get_deadline and time_is_valid on their own *)

\* get_deadline(d, t, z), called directly at the current instant
DeadlineCall(d, t, z) ==
    /\ pc = "idle"
    /\ gd = None
    /\ gd' = Some([fn |-> "get_deadline", days_until |-> d, adju_time |-> t,
                   adju_tz |-> z, at |-> clock,
                   result |-> get_deadline(d, t, z, clock)])
    /\ UNCHANGED <<data, clock, pc, locals, replay, replayed, ticks, trail>>

\* time_is_valid(t), called directly
ValidCall(t) ==
    /\ pc = "idle"
    /\ gd = None
    /\ gd' = Some([fn |-> "time_is_valid", adju_time |-> t,
                   result |-> time_is_valid(t)])
    /\ UNCHANGED <<data, clock, pc, locals, replay, replayed, ticks, trail>>

\* the result of the call is dropped
CallReturn ==
    /\ pc = "idle"
    /\ gd # None
    /\ gd' = None
    /\ UNCHANGED <<data, clock, pc, locals, replay, replayed, ticks, trail>>

InitDeadline ==
    /\ InitLocals
    /\ data = EmptyData
    /\ clock \in StartInstants

NextDeadline ==
    \/ \E d \in DeadlineDays, t \in TimeStrings, z \in Zones : DeadlineCall(d, t, z)
    \/ \E t \in TimeStrings : ValidCall(t)
    \/ CallReturn
    \/ Tick

SpecDeadline == InitDeadline /\ [][NextDeadline]_vars

-----------------------------------------------------------------------------
(* Properties of the phase model, checked under SpecPhase *)

\* the key each drawn phase_key stands for, written out; "" for no key
ExpectedKey ==
    [r \in RawKeys |->
        CASE r \in {"s", " S "} -> "s"
          [] r \in {"sr", "SR", "sR "} -> "sr"
          [] r = "f" -> "f"
          [] r \in {"fr", "Fr\n"} -> "fr"
          [] r \in {"w", "\tW"} -> "w"
          [] OTHER -> ""]

\* C1: for every valid phase key k (trimmed, lower-cased) and every year Y,
\* create_phase(k, Y) returns a phase of year Y whose successor has year Y,
\* except for key w, where the successor has year Y + 1.
C1_SuccessorYear ==
    (args.phase_name \in RawKeys /\ ExpectedKey[args.phase_name] # "") =>
        /\ phase # None
        /\ The(phase).year = args.year
        /\ The(phase).nxt.year =
              IF ExpectedKey[args.phase_name] = "w"
              THEN args.year + 1 ELSE args.year

C1_Witness ==
    /\ phase # None
    /\ args.phase_name = "\tW"
    /\ args.year = BaseYear
    /\ The(phase).year = BaseYear
    /\ The(phase).nxt.year = BaseYear + 1

\* the cycle, in order
CycleOrder ==
    << <<SPRING, MOVES>>, <<SPRING, RETREATS>>, <<FALL, MOVES>>,
       <<FALL, RETREATS>>, <<WINTER, ADJUSTMENTS>> >>

Permitted(season, phase_type) ==
    \/ season \in {SPRING, FALL} /\ phase_type \in {MOVES, RETREATS}
    \/ season = WINTER /\ phase_type = ADJUSTMENTS

\* C2: from Spring Moves of year Y, replacing the phase by its successor
\* visits Spring Moves, Spring Retreats, Fall Moves, Fall Retreats, Winter
\* Adjustments of year Y and then Spring Moves of year Y + 1; every successor
\* is the current phase of exactly one key; every visited (season, type) pair
\* is a permitted one.
C2_ClosedCycle ==
    /\ \A i \in 1..Len(trail) :
          /\ Cardinality(KeysOf(trail[i].nxt)) = 1
          /\ Permitted(trail[i].season, trail[i].phase_type)
          /\ Permitted(trail[i].nxt.season, trail[i].nxt.phase_type)
          /\ (i < Len(trail)) =>
                /\ trail[i + 1].season = trail[i].nxt.season
                /\ trail[i + 1].phase_type = trail[i].nxt.phase_type
                /\ trail[i + 1].year = trail[i].nxt.year
    /\ (phase # None) => (Len(trail) = MaxTrail \/ ENABLED PhaseAdvance)
    /\ (trail # <<>> /\ trail[1].season = SPRING /\ trail[1].phase_type = MOVES) =>
          \A i \in 1..Len(trail) :
              /\ <<trail[i].season, trail[i].phase_type>> = CycleOrder[((i - 1) % 5) + 1]
              /\ trail[i].year = trail[1].year + ((i - 1) \div 5)

C2_Witness ==
    /\ Len(trail) = 6
    /\ trail[1] = CurrentPhase(SPRING, BaseYear, MOVES, Phase(SPRING, BaseYear, RETREATS))
    /\ trail[5].season = WINTER
    /\ trail[5].year = BaseYear
    /\ trail[6] = CurrentPhase(SPRING, BaseYear + 1, MOVES,
                               Phase(SPRING, BaseYear + 1, RETREATS))

\* the results title of each key, written out
ExpectedResultsTitle(k, y) ==
    CASE k = "s"  -> "Spring " \o ToString(y) \o " Results"
      [] k = "sr" -> "Fall " \o ToString(y)
      [] k = "f"  -> "Fall " \o ToString(y) \o " Results"
      [] k = "fr" -> "Winter " \o ToString(y)
      [] k = "w"  -> "Spring " \o ToString(y + 1)

\* C3: the results_title of a Retreats or Adjustments phase is the
\* simple_title of its successor (for key w and year Y it names Spring of
\* year Y + 1); the results_title of a Moves phase is its own simple_title
\* followed by " Results".
C3_ResultsTitle ==
    (phase # None) =>
        LET p == The(phase)
        IN  /\ (p.phase_type \in {RETREATS, ADJUSTMENTS}) =>
                  results_title(p) = simple_title(p.nxt)
            /\ (p.phase_type = MOVES) =>
                  results_title(p) = simple_title(p) \o " Results"
            /\ \A k \in KeysOf(p) : results_title(p) = ExpectedResultsTitle(k, p.year)

C3_Witness ==
    /\ phase # None
    /\ The(phase).season = WINTER
    /\ The(phase).year = BaseYear
    /\ results_title(The(phase)) = "Spring 2027"

\* C4: simple_title is "{Season} {Year}", with " Retreats" appended only for
\* a Retreats phase; moves_title is simple_title followed by " Moves" for a
\* Moves phase, " Adjustments" for an Adjustments phase and nothing for a
\* Retreats phase; so moves_title ends with the name of the phase type, and
\* that name occurs exactly once in it.
C4_Titles ==
    (phase # None) =>
        LET p == The(phase)
            Base(q) == q.season \o " " \o ToString(q.year)
        IN  /\ \A q \in {p, p.nxt} :
                  simple_title(q) =
                      IF q.phase_type = RETREATS
                      THEN Base(q) \o " Retreats" ELSE Base(q)
            /\ moves_title(p) =
                  CASE p.phase_type = MOVES -> simple_title(p) \o " Moves"
                    [] p.phase_type = ADJUSTMENTS -> simple_title(p) \o " Adjustments"
                    [] p.phase_type = RETREATS -> simple_title(p)
            /\ EndsWith(moves_title(p), p.phase_type)
            /\ Occurrences(moves_title(p), p.phase_type) = 1

C4_Witness ==
    /\ phase # None
    /\ The(phase).phase_type = RETREATS
    /\ simple_title(The(phase)) = "Fall 2026 Retreats"
    /\ moves_title(The(phase)) = "Fall 2026 Retreats"

-----------------------------------------------------------------------------
(* Properties of get_deadline and time_is_valid, checked under SpecDeadline *)

\* the calendar, one day at a time
MonthLength(y, m) ==
    IF m \in {4, 6, 9, 11} THEN 30
    ELSE IF m # 2 THEN 31
    ELSE IF y % 4 = 0 /\ (y % 100 # 0 \/ y % 400 = 0) THEN 29
    ELSE 28

NextDay(ymd) ==
    IF ymd[3] < MonthLength(ymd[1], ymd[2]) THEN <<ymd[1], ymd[2], ymd[3] + 1>>
    ELSE IF ymd[2] < 12 THEN <<ymd[1], ymd[2] + 1, 1>>
    ELSE <<ymd[1] + 1, 1, 1>>

PrevDay(ymd) ==
    IF ymd[3] > 1 THEN <<ymd[1], ymd[2], ymd[3] - 1>>
    ELSE IF ymd[2] > 1 THEN <<ymd[1], ymd[2] - 1, MonthLength(ymd[1], ymd[2] - 1)>>
    ELSE <<ymd[1] - 1, 12, 31>>

RECURSIVE AddDays(_, _)
AddDays(ymd, d) ==
    IF d = 0 THEN ymd
    ELSE IF d > 0 THEN AddDays(NextDay(ymd), d - 1)
    ELSE AddDays(PrevDay(ymd), d + 1)

\* the drawn times that are clock times: hour 0..23, minute 0..59
ClockTimes ==
    {"14:00", "00:00", "23:59", "9:5", " 7 : 05 ", "+2:3", "1_0:0_5"}

\* the drawn times that are two colon-separated integers, each in 0..59
TwoIntsTo59 == ClockTimes \cup {"24:00", "59:59"}

IsDeadlineCall == gd # None /\ The(gd).fn = "get_deadline"

\* C6: get_deadline(days_until, "HH:MM", tz) is a direct day offset: the
\* result's local date is the reference instant's local date in tz plus
\* days_until days (positive, zero or negative) and its local clock time is
\* exactly HH:MM, whether the reference instant's time of day is before or
\* after HH:MM; called at 13:50 on 1 Jan 2026 with days_until 1 and 14:00 it
\* gives 14:00 on 2 Jan 2026.
C6_DirectOffset ==
    IsDeadlineCall =>
        LET g == The(gd)
            accepted == /\ g.adju_time \in ClockTimes
                        /\ g.adju_tz \in DOMAIN ZoneOffset
                        /\ g.days_until \in (0 - MaxDays)..MaxDays
        IN  /\ accepted => g.result.err = "none"
            /\ (g.result.err = "none") =>
                  LET ref == now(g.at, g.adju_tz)
                      hm == ParseTime(g.adju_time).val
                      r == g.result.val
                  IN  /\ <<r.year, r.month, r.day>> =
                            AddDays(<<ref.year, ref.month, ref.day>>, g.days_until)
                      /\ r.hour = hm[1]
                      /\ r.minute = hm[2]
                      /\ r.second = 0
                      /\ r.microsecond = 0
                      /\ r.tz = g.adju_tz
            /\ (/\ g.at = ExampleInstant
                /\ g.days_until = 1
                /\ g.adju_time = "14:00"
                /\ g.adju_tz = "America/Los_Angeles") =>
                  /\ now(g.at, g.adju_tz) =
                        datetime(2026, 1, 1, 13, 50, 0, 0, "America/Los_Angeles")
                  /\ g.result = [err |-> "none",
                                 val |-> datetime(2026, 1, 2, 14, 0, 0, 0,
                                                  "America/Los_Angeles")]

\* a call made after the time of day HH:MM with a negative days_until, over
\* the end of a year: 03:20 on 2 Jan 2026 in Kolkata, two days back, 00:00
C6_Witness ==
    /\ IsDeadlineCall
    /\ The(gd).at = ExampleInstant
    /\ The(gd).days_until = 0 - 2
    /\ The(gd).adju_time = "00:00"
    /\ The(gd).adju_tz = "Asia/Kolkata"
    /\ now(The(gd).at, "Asia/Kolkata").day = 2
    /\ now(The(gd).at, "Asia/Kolkata").hour = 3
    /\ The(gd).result =
          [err |-> "none",
           val |-> datetime(2025, 12, 31, 0, 0, 0, 0, "Asia/Kolkata")]

TimeFormatErrors == {"ValueError: Invalid timestamp", "ValueError"}

\* C8: get_deadline fails with a time-format error for exactly the times that
\* are not two colon-separated integers each in 0..59: every other time fails
\* and no deadline is computed, every such time is accepted, and
\* time_is_valid agrees.
C8_TimeFormatErrorsTo59 ==
    IsDeadlineCall =>
        LET g == The(gd)
        IN  /\ (g.adju_time \notin TwoIntsTo59) => g.result.err # "none"
            /\ (g.adju_time \in TwoIntsTo59) => g.result.err \notin TimeFormatErrors
            /\ time_is_valid(g.adju_time) <=> (g.adju_time \in TwoIntsTo59)

-----------------------------------------------------------------------------
(* Properties of _adju and test_adju_output, checked under Spec *)

\* C5: without an explicit days_until, the days used for the deadline are
\* the game's length for the type of the NEXT phase (Moves: move_length,
\* Retreats: retreat_length, Adjustments: adjustment_length); an explicit
\* days_until, 0 and negative values included, is used as it is.
C5_DaysUsed ==
    (days # None) =>
        LET g == The(game)
            nxt_type == The(phase).nxt.phase_type
        IN  IF args.days_until = None
            THEN The(days) =
                    CASE nxt_type = MOVES -> g.move_length
                      [] nxt_type = RETREATS -> g.retreat_length
                      [] nxt_type = ADJUSTMENTS -> g.adjustment_length
            ELSE The(days) = The(args.days_until)

\* Fall Retreats of a game with lengths 5/3/4: the next phase is Winter
\* Adjustments, and 4 days are used, not the 3 of a retreat phase
C5_Witness ==
    /\ days = Some(4)
    /\ args.days_until = None
    /\ The(phase).phase_type = RETREATS
    /\ The(phase).nxt.phase_type = ADJUSTMENTS
    /\ The(game).retreat_length = 3
    /\ The(game).adjustment_length = 4

Ended == pc \in {"done", "error", "mainloop", "replayed"}

\* C7: the output of _adju is all or nothing: either all six announcement
\* lines are echoed, in their order, or an error is surfaced and no line is
\* echoed; a phase key outside {s, sr, f, fr, w} gives an error and no line.
C7_AllOrNothing ==
    /\ Len(out) <= Len(lines)
    /\ \A i \in 1..Len(out) : out[i] = lines[i]
    /\ Ended =>
          \/ Len(out) = 6 /\ out = lines
          \/ err # "none" /\ out = <<>>
    /\ (pc = "done") => (err = "none" /\ Len(out) = 6)
    /\ (Ended /\ args.phase_name \notin {"s", "sr", "f", "fr", "w"}) =>
          (pc = "error" /\ err # "none" /\ out = <<>>)
    /\ (Len(lines) = 6) =>
          /\ StartsWith(lines[1], "**" \o The(phase).season)
          /\ StartsWith(lines[2], "**" \o upper(The(phase).nxt.season))
          /\ StartsWith(lines[3], "**" \o upper(The(game).name) \o " ")
          /\ StartsWith(lines[4], "**" \o upper(The(game).name) \o " ")
          /\ StartsWith(lines[5], "<t:")
          /\ StartsWith(lines[6], "\nRendered timestamp:")

C7_Witness ==
    /\ pc = "error"
    /\ args.phase_name = "x"
    /\ err = "KeyError"
    /\ out = <<>>
    /\ lines = <<>>

SixNonEmpty(ls) == Len(ls) = 6 /\ \A i \in 1..6 : Len(ls[i]) > 0

Replaying == replay > 0 /\ args.days_until = Some(0)

ReplayHolds ==
    /\ pc # "error"
    /\ err = "none"
    /\ (pc = "done") => SixNonEmpty(out)
    /\ Len(replayed) = (IF pc = "replayed" THEN Len(phase_order) ELSE replay - 1)
    /\ \A i \in 1..Len(replayed) : SixNonEmpty(replayed[i])
    /\ (replay = Len(phase_order) /\ phase # None) =>
          /\ args.phase_name = "w"
          /\ The(phase).nxt.year = args.year + 1

GameUsable(name) ==
    LET r == get_game(data, name)
    IN  /\ r.err = "none"
        /\ r.val.adju_time \in ClockTimes
        /\ r.val.adju_tz \in {"America/Los_Angeles", "UTC", "Asia/Kolkata"}

RawDelta ==
    LET dl == The(deadline)
        n2 == The(now2)
    IN  <<toordinal(dl) - toordinal(n2),
          SecondOfDay(dl) - SecondOfDay(n2),
          dl.microsecond - n2.microsecond>>

\* the raw difference rounded down to whole minutes
FloorMinutes(raw) == raw[1] * 1440 + ((raw[2] + (raw[3] \div 1000000)) \div 60)

IsNegative(raw) ==
    \/ raw[1] * 86400 + raw[2] < 0
    \/ raw[1] * 86400 + raw[2] = 0 /\ raw[3] < 0

\* C10: the string "in {days}d {hours}h {minutes}m" is derived from
\* delta = deadline - now so that, for every delta, hours is in 0..23,
\* minutes is in 0..59 and days*1440 + hours*60 + minutes is delta rounded
\* down to whole minutes; for a deadline that has passed days is negative
\* while hours and minutes are not.
C10_RelativeDuration ==
    (now2 # None /\ Len(lines) = 6) =>
        LET p == RelativeParts(DatetimeSub(The(deadline), The(now2)))
            f == FloorMinutes(RawDelta)
        IN  /\ p[2] \in 0..23
            /\ p[3] \in 0..59
            /\ p[1] * 1440 + p[2] * 60 + p[3] = f
            /\ IsNegative(RawDelta) => (p[1] < 0 /\ p[2] >= 0 /\ p[3] >= 0)
            /\ EndsWith(lines[6],
                  "\n\tin " \o ToString(f \div 1440) \o "d "
                      \o ToString((f % 1440) \div 60) \o "h "
                      \o ToString(f % 60) \o "m")

\* ten minutes and half a second after a deadline of the same day
C10_Witness ==
    /\ now2 # None
    /\ Len(lines) = 6
    /\ RawDelta = <<0, 0 - 600, 0 - 500000>>
    /\ RelativeParts(DatetimeSub(The(deadline), The(now2))) = <<0 - 1, 23, 49>>
    /\ EndsWith(lines[6], "in -1d 23h 49m")

=============================================================================
